---- MODULE Spec2Model ----
(***************************************************************************)
(* Point Jewels dashboard: the aggregation functions of app.py and of      *)
(* utils/helpers.py, and the Streamlit script of app.py as a state machine *)
(* in which one step is one complete script run (load_data at the top,     *)
(* the sidebar, the selected page with the handler of the widget that      *)
(* caused the run, and the save_data of the last line unless the run was   *)
(* cut short by st.rerun() or by an exception).                            *)
(*                                                                         *)
(* Dates are day numbers (day 0 is 2024-12-02, the project start), a       *)
(* datetime is a number of ticks, TicksPerDay ticks to the day; a date     *)
(* parsed by strptime is midnight of its day.  Texts are sequences of      *)
(* words; " " is white space.                                              *)
(***************************************************************************)
EXTENDS Integers, Sequences, FiniteSets, TLC

VARIABLES
    file,     \* project_data.json: Some(JSON text), or NoFile when it is absent
    data,     \* the module-level `data` of app.py as the last run left it, if any
    loaded,   \* what load_data() returned at the top of the last run, if any
    now,      \* the wall clock, in ticks
    event,    \* the widget event that caused the last run, and when
    runEnd,   \* how the last run ended: none, exit, rerun or error
    msg,      \* what the last run's handler told the user
    shown,    \* what the last run of app.py computed for display
    session,  \* st.session_state: the cached financial summary and its time
    lib,      \* what the last call into utils/helpers.py returned, if any
    runs      \* script runs so far

vars == <<file, data, loaded, now, event, runEnd, msg, shown, session, lib, runs>>

----------------------------------------------------------------------------
(* Bounds of the model *)

TicksPerDay == 2          \* resolution of the clock: tick 0 of a day is midnight
MaxNow == 2               \* the clock runs from tick 0 to this tick
MaxRuns == 4              \* script runs in one behaviour
MaxTasks == 2             \* length of the task lists the functions are tried on
SeedTasks == 3            \* tasks kept from the seeded list of get_default_data

(* Program constants *)

DepositThreshold == 10000
MilestoneThreshold == 15000
ToastCut == 30
SuggestionCap == 5
SimilarCap == 2
RecentTasks == 5
ComponentsCap == 3
MinInput == 3
BudgetAlert == 90
NotificationBudget == 85
LastWeek == 6
LaunchSoon == 7

\* an optional value is <<>> or <<v>>
None == <<>>
Some(v) == <<v>>
NoFile == None

----------------------------------------------------------------------------
(* datetime *)

\* a text that is no date "%Y-%m-%d", say "2024-13-45" or "soon", is kept as
\* a day number that no date has
NotADate == 1000000

\* whether datetime.strptime(date, "%Y-%m-%d") returns; it raises ValueError
\* otherwise
IsDate(date) == date # NotADate

\* datetime.strptime(date, "%Y-%m-%d"): midnight of the day; no value when
\* it raises
strptime(day) == CASE IsDate(day) -> day * TicksPerDay

\* timedelta.days of (a - b): the floor of the difference in days
days(delta) == delta \div TicksPerDay

\* datetime.now().date()
today(t) == t \div TicksPerDay

----------------------------------------------------------------------------
(* str *)

\* str.lower(), word by word
LowerWord(w) ==
    CASE w = "Pay" -> "pay"
      [] w = "Payment" -> "payment"
      [] w = "Deposit" -> "deposit"
      [] w = "Milestone" -> "milestone"
      [] w = "Jared" -> "jared"
      [] w = "Brief" -> "brief"
      [] w = "Pending" -> "pending"
      [] w = "Completed" -> "completed"
      [] w = "Critical" -> "critical"
      [] w = "High" -> "high"
      [] w = "Medium" -> "medium"
      [] w = "Design" -> "design"
      [] w = "Send" -> "send"
      [] w = "Review" -> "review"
      [] w = "Schedule" -> "schedule"
      [] w = "Update" -> "update"
      [] w = "Check" -> "check"
      [] w = "Create" -> "create"
      [] w = "Test" -> "test"
      [] w = "Document" -> "document"
      [] w = "Coordinate" -> "coordinate"
      [] w = "Finalize" -> "finalize"
      [] w = "Code" -> "code"
      [] w = "Implement" -> "implement"
      [] w = "Fix" -> "fix"
      [] w = "Deploy" -> "deploy"
      [] w = "Receive" -> "receive"
      [] w = "Process" -> "process"
      [] w = "Client" -> "client"
      [] w = "Team" -> "team"
      [] w = "Project" -> "project"
      [] w = "Write" -> "write"
      [] w = "Social" -> "social"
      [] OTHER -> w

lower(s) == [i \in 1..Len(s) |-> LowerWord(s[i])]

RECURSIVE lstrip(_)
lstrip(s) == IF s # <<>> /\ Head(s) = " " THEN lstrip(Tail(s)) ELSE s

RECURSIVE rstrip(_)
rstrip(s) ==
    IF s # <<>> /\ s[Len(s)] = " " THEN rstrip(SubSeq(s, 1, Len(s) - 1)) ELSE s

\* str.strip()
strip(s) == rstrip(lstrip(s))

\* `needle in s` for a one-word needle: some word of s has it as a substring
HasSubstring(needle, w) == w = needle \/ (needle = "pay" /\ w = "payment")

contains(needle, s) == \E i \in 1..Len(s) : HasSubstring(needle, s[i])

\* s[:n], every word one character of the cut
prefix(s, n) == SubSeq(s, 1, IF Len(s) < n THEN Len(s) ELSE n)

\* s[-n:]
suffix(s, n) == SubSeq(s, IF Len(s) < n THEN 1 ELSE Len(s) - n + 1, Len(s))

\* str.split(): the words between the white space
split(s) ==
    LET Word(w) == w # " "
    IN  SelectSeq(s, Word)

\* `needle in s` for a needle of any number of words: the words of the needle
\* stand in s one after the other, the last of them as the start of a word;
\* the empty text is in every text
within(needle, s) ==
    \/ needle = <<>>
    \/ Len(needle) = 1 /\ contains(needle[1], s)
    \/ /\ Len(needle) > 1
       /\ \E k \in 0..(Len(s) - Len(needle)) :
             \A i \in 1..Len(needle) :
                 IF i = Len(needle) THEN HasSubstring(needle[i], s[k + i])
                 ELSE needle[i] = s[k + i]

\* the characters of a word
CharsOf(w) ==
    CASE w = " " -> 1
      [] w = "to" -> 2
      [] w = "for" -> 3
      [] w = "send" -> 4
      [] w = "Design" -> 6
      [] w = "meeting" -> 7

\* len(s): the characters of the words and one blank between two words
RECURSIVE len(_)
len(s) ==
    IF s = <<>> THEN 0
    ELSE CharsOf(Head(s)) + len(Tail(s))
         + (IF Len(s) > 1 /\ s[1] # " " /\ s[2] # " " THEN 1 ELSE 0)

\* f"{a} {b}": a, one blank, b
joined(a, b) == IF b # <<>> /\ Head(b) = " " THEN a \o <<" ">> \o b ELSE a \o b

\* the lists of a list of lists, one after the other
RECURSIVE extend(_)
extend(lists) == IF lists = <<>> THEN <<>> ELSE Head(lists) \o extend(Tail(lists))

----------------------------------------------------------------------------
(* Sequences *)

RECURSIVE SumAmounts(_)
SumAmounts(ps) == IF ps = <<>> THEN 0 ELSE Head(ps).amount + SumAmounts(Tail(ps))

Count(s, Test(_)) == Len(SelectSeq(s, Test))

Max(S) == CHOOSE x \in S : \A y \in S : y <= x

Ids(tasks) == {tasks[i].id : i \in 1..Len(tasks)}

\* list.index(x): the first position holding a value equal to x
index(s, x) == CHOOSE i \in 1..Len(s) : s[i] = x /\ \A j \in 1..(i - 1) : s[j] # x

swap(s, i, j) == [s EXCEPT ![i] = s[j], ![j] = s[i]]

----------------------------------------------------------------------------
(* Documents *)

Task(id, text, week, deadline, status, assignee, priority) ==
    [id |-> id, task |-> text, week |-> week, deadline |-> deadline,
     status |-> status, assignee |-> assignee, priority |-> priority]

PaymentIn(date, amount, from, status) ==
    [date |-> date, amount |-> amount, from |-> from, status |-> status]

PaymentOut(date, amount, to, status) ==
    [date |-> date, amount |-> amount, to |-> to, status |-> status]

\* the 22 seeded tasks of get_default_data, texts cut to their key words
SeededTasks ==
    << Task(1, <<"Pay", "designer", "deposit">>, 1, 0, "completed", "You", "critical"),
       Task(2, <<"Send", "Jared", "Brief">>, 1, 2, "pending", "You", "high"),
       Task(3, <<"Confirm", "meeting">>, 1, 1, "pending", "You", "high"),
       Task(4, <<"Book", "models">>, 1, 2, "pending", "You", "medium"),
       Task(5, <<"Pay", "Jared", "second">>, 1, 3, "pending", "You", "critical"),
       Task(6, <<"brand", "meeting">>, 1, 2, "pending", "You", "critical"),
       Task(7, <<"Scout", "location">>, 1, 4, "pending", "You", "medium"),
       Task(8, <<"Send", "update">>, 1, 4, "pending", "You", "high"),
       Task(9, <<"Conduct", "photoshoot">>, 2, 9, "pending", "You", "critical"),
       Task(10, <<"Jared", "mockups">>, 2, 11, "pending", "Jared", "critical"),
       Task(11, <<"Show", "mockups">>, 2, 11, "pending", "You", "high"),
       Task(12, <<"Pay", "Jared", "mockup", "milestone">>, 3, 14, "pending", "You", "critical"),
       Task(13, <<"Begin", "development">>, 3, 14, "pending", "Jared", "high"),
       Task(14, <<"Upload", "photos">>, 3, 18, "pending", "You", "medium"),
       Task(15, <<"Integrate", "chart">>, 3, 18, "pending", "Jared", "medium"),
       Task(16, <<"prototype", "ready">>, 4, 25, "pending", "Jared", "critical"),
       Task(17, <<"Show", "site">>, 4, 25, "pending", "You", "high"),
       Task(18, <<"Mobile", "optimization">>, 5, 32, "pending", "Jared", "high"),
       Task(19, <<"Final", "testing">>, 6, 39, "pending", "You", "critical"),
       Task(20, <<"Train", "Liza">>, 6, 39, "pending", "You", "high"),
       Task(21, <<"Pay", "Jared", "final">>, 6, 41, "pending", "You", "critical"),
       Task(22, <<"LAUNCH">>, 6, 41, "pending", "Everyone", "critical") >>

SeededFinances ==
    [budget_total |-> 50000,
     received |-> << PaymentIn(-7, 11400, <<"Terry">>, "received") >>,
     pending_in |-> << PaymentIn(14, 19300, <<"Terry", "Milestone">>, "pending"),
                       PaymentIn(41, 19300, <<"Terry", "Final">>, "pending") >>,
     paid_out |-> << PaymentOut(0, 5000, <<"Jared", "Deposit">>, "paid") >>,
     pending_out |-> << PaymentOut(3, 5000, <<"Jared", "Deposit">>, "pending"),
                        PaymentOut(14, 7500, <<"Jared", "Mockup", "milestone">>, "pending"),
                        PaymentOut(41, 7500, <<"Jared", "Final">>, "pending") >>,
     designer_total |-> 20000,
     expenses_misc |-> 3000]

SeededProject == [current_week |-> 1, status |-> "In Progress", launch_date |-> 41]

\* get_default_data of app.py, its task list cut to the first SeedTasks tasks
get_default_data ==
    [project |-> SeededProject,
     tasks |-> SubSeq(SeededTasks, 1, SeedTasks),
     finances |-> SeededFinances]

(* Documents a user may have in project_data.json before the first run:    *)
(* well-formed ones, with unique task ids and every payment carrying the   *)
(* status of its list.                                                     *)

\* ids not contiguous; a completed task long past its deadline; one due on day 0
SampleTasks ==
    << Task(1, <<"Pay", "Deposit">>, 1, 0, "pending", "You", "critical"),
       Task(4, <<"Send", "Brief">>, 1, -3, "completed", "You", "high"),
       Task(2, <<"Book", "models">>, 2, 1, "pending", "Jared", "medium") >>

\* tasks of week 1 in an order the Dashboard rearranges: one neither critical
\* nor overdue, one past its deadline, one critical
WeekTasks ==
    << Task(5, <<"Book", "models">>, 1, 1, "pending", "Jared", "medium"),
       Task(3, <<"Send", "Brief">>, 1, -1, "pending", "You", "high"),
       Task(1, <<"Pay", "Deposit">>, 1, 0, "pending", "You", "critical") >>

\* both deposits to the designer are paid
DepositsPaid ==
    [SeededFinances EXCEPT
        !.paid_out = << PaymentOut(0, 5000, <<"Jared", "Deposit">>, "paid"),
                        PaymentOut(3, 5000, <<"Jared", "Deposit">>, "paid") >>,
        !.pending_out = << PaymentOut(14, 7500, <<"Jared", "Mockup", "milestone">>, "pending") >>]

----------------------------------------------------------------------------
(* Data management *)

(* The file holds the JSON text of a document, kept as the tree of its      *)
(* tokens.  A leaf is a number token or a string token, with the value it  *)
(* spells: an int, or a str as the model keeps it (a word, a text of       *)
(* several words, or the day number of a date "%Y-%m-%d").                 *)

NumberKeys == {"id", "week", "amount", "current_week",
               "budget_total", "designer_total", "expenses_misc"}
ListKeys == {"received", "pending_in", "paid_out", "pending_out"}

\* a slip in json.dump: every value written through default=str
dumps_value_as_str(key, v) == <<"string", v>>

\* json.dump of the value a dict holds under key: an int is written as a
\* number, a str as a string
dumps_value(key, v) == IF key \in NumberKeys THEN <<"number", v>> ELSE <<"string", v>>

\* a dict is written key by key; tasks, payments and the project have the
\* keys below in every document of the program
dumps_task(task) ==
    [id |-> dumps_value("id", task.id), task |-> dumps_value("task", task.task),
     week |-> dumps_value("week", task.week),
     deadline |-> dumps_value("deadline", task.deadline),
     status |-> dumps_value("status", task.status),
     assignee |-> dumps_value("assignee", task.assignee),
     priority |-> dumps_value("priority", task.priority)]

dumps_payment(p) ==
    IF "from" \in DOMAIN p
    THEN [date |-> dumps_value("date", p.date), amount |-> dumps_value("amount", p.amount),
          from |-> dumps_value("from", p.from), status |-> dumps_value("status", p.status)]
    ELSE [date |-> dumps_value("date", p.date), amount |-> dumps_value("amount", p.amount),
          to |-> dumps_value("to", p.to), status |-> dumps_value("status", p.status)]

dumps_payments(l) == [i \in 1..Len(l) |-> dumps_payment(l[i])]

\* json.dump(data, f, indent=2, default=str)
dumps(d) ==
    [project |-> [current_week |-> dumps_value("current_week", d.project.current_week),
                  status |-> dumps_value("status", d.project.status),
                  launch_date |-> dumps_value("launch_date", d.project.launch_date)],
     tasks |-> [i \in 1..Len(d.tasks) |-> dumps_task(d.tasks[i])],
     finances |-> [budget_total |-> dumps_value("budget_total", d.finances.budget_total),
                   received |-> dumps_payments(d.finances.received),
                   pending_in |-> dumps_payments(d.finances.pending_in),
                   paid_out |-> dumps_payments(d.finances.paid_out),
                   pending_out |-> dumps_payments(d.finances.pending_out),
                   designer_total |-> dumps_value("designer_total", d.finances.designer_total),
                   expenses_misc |-> dumps_value("expenses_misc", d.finances.expenses_misc)]]

\* json.load of one token: the int a number spells, the str a string spells
loads_value(j) == j[2]

loads_task(j) ==
    [id |-> loads_value(j.id), task |-> loads_value(j.task), week |-> loads_value(j.week),
     deadline |-> loads_value(j.deadline), status |-> loads_value(j.status),
     assignee |-> loads_value(j.assignee), priority |-> loads_value(j.priority)]

loads_payment(j) ==
    IF "from" \in DOMAIN j
    THEN [date |-> loads_value(j.date), amount |-> loads_value(j.amount),
          from |-> loads_value(j.from), status |-> loads_value(j.status)]
    ELSE [date |-> loads_value(j.date), amount |-> loads_value(j.amount),
          to |-> loads_value(j.to), status |-> loads_value(j.status)]

loads_payments(j) == [i \in 1..Len(j) |-> loads_payment(j[i])]

\* json.load(f)
loads(j) ==
    [project |-> [current_week |-> loads_value(j.project.current_week),
                  status |-> loads_value(j.project.status),
                  launch_date |-> loads_value(j.project.launch_date)],
     tasks |-> [i \in 1..Len(j.tasks) |-> loads_task(j.tasks[i])],
     finances |-> [budget_total |-> loads_value(j.finances.budget_total),
                   received |-> loads_payments(j.finances.received),
                   pending_in |-> loads_payments(j.finances.pending_in),
                   paid_out |-> loads_payments(j.finances.paid_out),
                   pending_out |-> loads_payments(j.finances.pending_out),
                   designer_total |-> loads_value(j.finances.designer_total),
                   expenses_misc |-> loads_value(j.finances.expenses_misc)]]

\* load_data of app.py and of utils/helpers.py
load_data(f) == IF f # NoFile THEN loads(f[1]) ELSE get_default_data

\* save_data: the file's new content
save_data(d) == Some(dumps(d))

SampleFiles ==
    { save_data([project |-> [SeededProject EXCEPT !.launch_date = 30],
            tasks |-> SampleTasks, finances |-> DepositsPaid]),
      save_data([project |-> [SeededProject EXCEPT !.launch_date = -30],
            tasks |-> <<>>, finances |-> SeededFinances]),
      save_data([project |-> [SeededProject EXCEPT !.launch_date = 1],
            tasks |-> WeekTasks, finances |-> SeededFinances]) }


----------------------------------------------------------------------------
(* Aggregation functions of app.py; t is datetime.now() *)

IsCompleted(task) == task.status = "completed"
IsPending(task) == task.status = "pending"
IsCritical(task) == task.priority = "critical"

\* a slip in get_task_stats: pending counted with the key of the next line
get_task_stats_wrong_key(tasks) ==
    [total |-> Len(tasks),
     completed |-> Count(tasks, IsCompleted),
     pending |-> Count(tasks, IsCritical),
     critical |-> Count(tasks, IsCritical)]

get_task_stats(tasks) ==
    [total |-> Len(tasks),
     completed |-> Count(tasks, IsCompleted),
     pending |-> Count(tasks, IsPending),
     critical |-> Count(tasks, IsCritical)]

get_financial_summary(finances) ==
    [received |-> SumAmounts(finances.received),
     pending_in |-> SumAmounts(finances.pending_in),
     paid_out |-> SumAmounts(finances.paid_out),
     pending_out |-> SumAmounts(finances.pending_out),
     profit |-> finances.budget_total - finances.designer_total - finances.expenses_misc,
     balance |-> SumAmounts(finances.received) - SumAmounts(finances.paid_out)]

\* whether is_task_overdue raises: the ValueError of strptime is not caught
is_task_overdue_raises(task) == task.status # "completed" /\ ~IsDate(task.deadline)

\* what is_task_overdue returns when it returns
is_task_overdue(task, t) ==
    IF task.status = "completed" THEN FALSE ELSE strptime(task.deadline) < t

\* a slip in get_days_remaining: the difference in days cut towards zero
get_days_remaining_truncated(project, t) ==
    LET delta == strptime(project.launch_date) - t
    IN  IF delta >= 0 THEN delta \div TicksPerDay ELSE -((-delta) \div TicksPerDay)

get_days_remaining(project, t) == days(strptime(project.launch_date) - t)

----------------------------------------------------------------------------
(* Aggregation functions of utils/helpers.py *)

\* the try block of is_task_overdue catches ValueError and KeyError: no
\* call raises
helpers_is_task_overdue_raises(task) == FALSE

\* is_task_overdue: False from the except clause when strptime raises
helpers_is_task_overdue(task, t) ==
    IF IsDate(task.deadline) THEN strptime(task.deadline) < t ELSE FALSE

helpers_get_task_stats(tasks, t) ==
    LET completed == Count(tasks, IsCompleted)
        Overdue(task) == helpers_is_task_overdue(task, t) /\ task.status # "completed"
    IN  [total |-> Len(tasks),
         completed |-> completed,
         pending |-> Len(tasks) - completed,
         overdue |-> Count(tasks, Overdue)]

helpers_get_financial_summary(finances) ==
    LET Received(p) == p.status = "received"
        Paid(p) == p.status = "paid"
        received == SumAmounts(SelectSeq(finances.received, Received))
        pending_in == SumAmounts(finances.pending_in)
        paid_out == SumAmounts(SelectSeq(finances.paid_out, Paid))
        pending_out == SumAmounts(finances.pending_out)
        total_received == received + pending_in
        total_paid == paid_out + pending_out
    IN  [received |-> received,
         pending_in |-> pending_in,
         paid_out |-> paid_out,
         pending_out |-> pending_out,
         profit |-> total_received - total_paid,
         balance |-> total_received - paid_out]

helpers_get_days_remaining(project, t) ==
    LET d == days(strptime(project.launch_date) - t) IN IF d > 0 THEN d ELSE 0

----------------------------------------------------------------------------
(* Session state and toasts *)

\* timedelta.seconds: the part of the difference within the day, in ticks
seconds(delta) == delta % TicksPerDay

\* a tick is longer than the 30 seconds of the cache, so `.seconds > 30`
\* holds exactly when the part within the day is at least one tick
CacheExpired(last, t) == last = None \/ seconds(t - last[1]) > 0

optimize_performance(sess, d, t) ==
    IF CacheExpired(sess.last_financial_update, t)
    THEN [cached_financial_summary |-> Some(get_financial_summary(d.finances)),
          last_financial_update |-> Some(t)]
    ELSE sess

\* show_toast(f"... {task['task'][:30]}...")
Toast(kind, text) == <<kind, prefix(text, ToastCut)>>

----------------------------------------------------------------------------
(* Financial chain reaction *)

\* (received + paid_out) / budget_total * 100, in whole percents; the
\* division raises ZeroDivisionError on a zero budget: no value
budget_used(summary, budget_total) ==
    IF budget_total = 0 THEN None
    ELSE Some(((summary.received + summary.paid_out) * 100) \div budget_total)

PaidTo(word, finances) ==
    LET Hit(p) == IF "to" \in DOMAIN p THEN contains(word, lower(p.to)) ELSE FALSE
    IN  SumAmounts(SelectSeq(finances.paid_out, Hit))

\* whether update_task_dependencies_from_finances marks the task complete
TaskComplete(task, finances) ==
    /\ contains("payment", lower(task.task)) \/ contains("pay", lower(task.task))
    /\ \/ /\ contains("deposit", lower(task.task))
          /\ PaidTo("deposit", finances) >= DepositThreshold
       \/ /\ contains("milestone", lower(task.task))
          /\ PaidTo("milestone", finances) >= MilestoneThreshold

AutoCompleted(d) ==
    {i \in 1..Len(d.tasks) :
        TaskComplete(d.tasks[i], d.finances) /\ d.tasks[i].status # "completed"}

\* the document and the last toast after update_task_dependencies_from_finances
update_task_dependencies_from_finances(d, toast) ==
    LET hit == AutoCompleted(d)
    IN  [data |-> [d EXCEPT !.tasks =
                     [i \in 1..Len(d.tasks) |->
                        IF i \in hit THEN [d.tasks[i] EXCEPT !.status = "completed"]
                        ELSE d.tasks[i]]],
         msg |-> IF hit = {} THEN toast
                 ELSE Toast("Task completed", d.tasks[Max(hit)].task)]

\* trigger_financial_chain_reaction: raises ZeroDivisionError on a zero budget,
\* else leaves the document and the last toast
trigger_financial_chain_reaction(d) ==
    LET finances == d.finances
        new_summary == get_financial_summary(finances)
        used == new_summary.received + new_summary.paid_out
        \* budget_used > 90 and budget_used > 100, budget_used = used / budget * 100
        over90 == used * 100 > 90 * finances.budget_total
        over100 == used * 100 > 100 * finances.budget_total
        toast1 == IF over90 THEN Toast("Budget utilization over 90%", <<>>)
                  ELSE IF over100 THEN Toast("Budget exceeded", <<>>)
                  ELSE None
        toast2 == IF new_summary.profit < 0
                  THEN Toast("Negative profit margin detected", <<>>)
                  ELSE IF new_summary.profit * 10 > finances.budget_total * 3
                  THEN Toast("Excellent profit margin", <<>>)
                  ELSE toast1
        after == update_task_dependencies_from_finances(d, toast2)
        \* the toasts of the budget check and of the profit check, as shown
        alerts == (IF toast1 # None THEN <<toast1>> ELSE <<>>)
                  \o (IF toast2 # toast1 THEN <<toast2>> ELSE <<>>)
    IN  IF budget_used(new_summary, finances.budget_total) = None
        THEN [raised |-> TRUE, data |-> d, msg |-> None, alerts |-> <<>>]
        ELSE [raised |-> FALSE, data |-> after.data, msg |-> after.msg, alerts |-> alerts]

----------------------------------------------------------------------------
(* What a script run leaves: the document in memory, the file, how the run *)
(* ended, the last message, the session state and what was displayed       *)

Result(d, f, end, m, sess, sh) ==
    [data |-> d, file |-> f, end |-> end, msg |-> m, session |-> sess, shown |-> sh]

\* the sidebar: task statistics and days to launch
Sidebar(d, t) ==
    LET days_left == get_days_remaining(d.project, t)
    IN  [stats |-> get_task_stats(d.tasks),
         days_left |-> days_left,
         launched |-> ~(days_left > 0),
         rendered |-> <<>>,
         overdue |-> {},
         alerts |-> <<>>,
         finances |-> None]

\* arg is the place of the clicked task in the list shown, or the number entered
Event(page, kind, arg, text, t) ==
    [page |-> page, kind |-> kind, arg |-> arg, text |-> text, at |-> t]

----------------------------------------------------------------------------
(* Tasks page *)

\* the choices of the three select boxes that the model tries
FilterWeeks == {"All", "W1"}
FilterStatuses == {"All", "Pending"}
FilterPriorities == {"All", "Critical"}

\* int(filter_week[1:])
week_num(filter_week) ==
    CASE filter_week = "W1" -> 1 [] filter_week = "W2" -> 2 [] filter_week = "W3" -> 3
      [] filter_week = "W4" -> 4 [] filter_week = "W5" -> 5 [] filter_week = "W6" -> 6

\* a slip in the filters: the status filter starts again from the whole list
Filtered_status_restarts(tasks, filter_week, filter_status, filter_priority) ==
    LET InWeek(task) == task.week = week_num(filter_week)
        HasStatus(task) == task.status = LowerWord(filter_status)
        HasPriority(task) == task.priority = LowerWord(filter_priority)
        f1 == IF filter_week # "All" THEN SelectSeq(tasks, InWeek) ELSE tasks
        f2 == IF filter_status # "All" THEN SelectSeq(tasks, HasStatus) ELSE f1
    IN  IF filter_priority # "All" THEN SelectSeq(f2, HasPriority) ELSE f2

\* the three filters, applied one after the other
Filtered(tasks, filter_week, filter_status, filter_priority) ==
    LET InWeek(task) == task.week = week_num(filter_week)
        HasStatus(task) == task.status = LowerWord(filter_status)
        HasPriority(task) == task.priority = LowerWord(filter_priority)
        f1 == IF filter_week # "All" THEN SelectSeq(tasks, InWeek) ELSE tasks
        f2 == IF filter_status # "All" THEN SelectSeq(f1, HasStatus) ELSE f1
    IN  IF filter_priority # "All" THEN SelectSeq(f2, HasPriority) ELSE f2

\* a slip in the checkbox handler: every run of it flips the status
CheckboxHandler_flip(task, checked) ==
    IF task.status # "completed" THEN [task EXCEPT !.status = "completed"]
    ELSE [task EXCEPT !.status = "pending"]

\* the checkbox handler of one task; checked is the value of its checkbox
CheckboxHandler(task, checked) ==
    IF checked
    THEN IF task.status # "completed" THEN [task EXCEPT !.status = "completed"] ELSE task
    ELSE IF task.status # "pending" THEN [task EXCEPT !.status = "pending"] ELSE task

CheckboxToast(task, checked) ==
    IF checked
    THEN IF task.status # "completed" THEN Toast("Task completed", task.task) ELSE None
    ELSE IF task.status # "pending" THEN Toast("Task reopened", task.task) ELSE None

\* a checkbox keeps the value it showed last, the task's status, unless the
\* user has just clicked it
Checked(task, clicked) ==
    IF clicked THEN ~(task.status = "completed") ELSE task.status = "completed"

\* render_advanced_notifications divides by budget_total
NotificationsRaise(d) ==
    budget_used(get_financial_summary(d.finances), d.finances.budget_total) = None

\* the deadline notification of one task of the current week that is not
\* completed, if any
deadline_notification(task, t) ==
    LET days_until_deadline == days(strptime(task.deadline) - t)
        Entry(type, title) ==
            << [type |-> type, title |-> title, task_id |-> Some(task.id)] >>
    IN  IF days_until_deadline = 0 THEN Entry("urgent", "Task Due Today")
        ELSE IF days_until_deadline = 1 THEN Entry("warning", "Task Due Tomorrow")
        ELSE IF days_until_deadline < 0 THEN Entry("overdue", "Overdue Task")
        ELSE <<>>

\* render_advanced_notifications, called at time t: whether it raised
\* (ValueError of strptime, ZeroDivisionError of the budget division), and
\* the notifications it returns
render_advanced_notifications(d, t) ==
    LET current_week == d.project.current_week
        WeekTask(task) == task.week = current_week
        week_tasks == SelectSeq(d.tasks, WeekTask)
        Open(task) == task.status # "completed"
        open_tasks == SelectSeq(week_tasks, Open)
        finances == get_financial_summary(d.finances)
        budget_alert ==
            IF (finances.received + finances.paid_out) * 100
                   > NotificationBudget * d.finances.budget_total
            THEN << [type |-> "budget", title |-> "Budget Alert", task_id |-> None] >>
            ELSE <<>>
        \* week_progress < 0.5, week_progress = completed / len(week_tasks) or 0
        behind == week_tasks = <<>>
                  \/ 2 * Count(week_tasks, IsCompleted) < Len(week_tasks)
        milestone ==
            IF current_week < LastWeek /\ behind
            THEN << [type |-> "milestone", title |-> "Weekly Progress", task_id |-> None] >>
            ELSE <<>>
    IN  IF \/ \E i \in 1..Len(open_tasks) : ~IsDate(open_tasks[i].deadline)
           \/ NotificationsRaise(d)
        THEN [raised |-> TRUE, notifications |-> <<>>]
        ELSE [raised |-> FALSE,
              notifications |->
                  extend([i \in 1..Len(open_tasks) |->
                             deadline_notification(open_tasks[i], t)])
                  \o budget_alert \o milestone]

\* a slip in the new id: the number of tasks plus one
new_id_by_length(tasks) == Len(tasks) + 1

\* max(t["id"] for t in data["tasks"]) + 1; max() of no task raises ValueError
new_id(tasks) == Max(Ids(tasks)) + 1

\* a slip in the Add Task handler: the text tested without strip()
Accepts_unstripped(task_text) == task_text # <<>>

\* whether the Add Task handler takes the text: task_text.strip() is not empty
Accepts(task_text) == strip(task_text) # <<>>

\* the Add Task handler: the result of the run
AddTask(d, f, task_text, new_week, new_deadline, new_priority, new_assignee, sess, sh) ==
    IF Accepts(task_text)
    THEN IF d.tasks = <<>>
         THEN Result(d, f, "error", None, sess, sh)
         ELSE LET d2 == [d EXCEPT !.tasks =
                           Append(@, Task(new_id(d.tasks), task_text, new_week,
                                          new_deadline, "pending", new_assignee,
                                          new_priority))]
              IN  Result(d2, save_data(d2), "rerun", Toast("Task added", task_text), sess, sh)
    ELSE Result(d, f, "exit", Toast("Task description required", <<>>), sess, sh)

\* the Tasks page, from the filters to the Add Task handler
TasksPage(d, f, sess, ev, filter_week, filter_status, filter_priority, new_priority) ==
    LET t == ev.at
        filtered == Filtered(d.tasks, filter_week, filter_status, filter_priority)
        n == Len(filtered)
        InView(task) == \E i \in 1..n : filtered[i] = task
        Clicked(task) == ev.kind = "toggle" /\ filtered[ev.arg] = task
        tasks2 == [i \in 1..Len(d.tasks) |->
                     IF InView(d.tasks[i])
                     THEN CheckboxHandler(d.tasks[i], Checked(d.tasks[i], Clicked(d.tasks[i])))
                     ELSE d.tasks[i]]
        toast == IF ev.kind = "toggle"
                 THEN CheckboxToast(filtered[ev.arg], Checked(filtered[ev.arg], TRUE))
                 ELSE None
        d2 == [d EXCEPT !.tasks = tasks2]
        Show(upto) ==
            LET shownTasks == [i \in 1..upto |-> tasks2[index(d.tasks, filtered[i])]]
            IN  [Sidebar(d, t) EXCEPT
                    !.rendered = [i \in 1..upto |-> shownTasks[i].id],
                    !.overdue = {shownTasks[i].id : i \in
                                    {j \in 1..upto : is_task_overdue(shownTasks[j], t)}}]
        task_idx == index(d.tasks, filtered[ev.arg])
    IN  CASE ev.kind = "up" ->
               LET d3 == [d EXCEPT !.tasks = swap(@, task_idx, task_idx - 1)]
               IN  IF task_idx > 1
                   THEN Result(d3, save_data(d3), "rerun", Toast("Task moved up", <<>>),
                               sess, Show(ev.arg - 1))
                   ELSE Result(d, f, "exit", None, sess, Show(n))
          [] ev.kind = "down" ->
               LET d3 == [d EXCEPT !.tasks = swap(@, task_idx, task_idx + 1)]
               IN  IF task_idx < Len(d.tasks)
                   THEN Result(d3, save_data(d3), "rerun", Toast("Task moved down", <<>>),
                               sess, Show(ev.arg - 1))
                   ELSE Result(d, f, "exit", None, sess, Show(n))
          [] OTHER ->
               IF NotificationsRaise(d2)
               THEN Result(d2, f, "error", toast, sess, Show(n))
               ELSE IF ev.kind = "add"
               THEN AddTask(d2, f, ev.text, d2.project.current_week, today(t),
                            new_priority, "You", sess, Show(n))
               ELSE Result(d2, f, "exit", toast, sess, Show(n))

----------------------------------------------------------------------------
(* Smart suggestions *)

\* task_types of app.py, in the order of the dict
task_types ==
    << [category |-> "design",
        tasks |-> << <<"Create", "mockups">>, <<"Review", "designs">>,
                     <<"Update", "branding">>, <<"Design", "review">> >>],
       [category |-> "development",
        tasks |-> << <<"Code", "review">>, <<"Implement", "feature">>,
                     <<"Fix", "bug">>, <<"Deploy", "to", "staging">> >>],
       [category |-> "payment",
        tasks |-> << <<"Send", "invoice">>, <<"Receive", "payment">>,
                     <<"Process", "refund">>, <<"Update", "budget">> >>],
       [category |-> "meeting",
        tasks |-> << <<"Client", "call">>, <<"Team", "standup">>,
                     <<"Design", "review">>, <<"Project", "update">> >>],
       [category |-> "content",
        tasks |-> << <<"Write", "copy">>, <<"Create", "assets">>,
                     <<"Update", "website">>, <<"Social", "media">> >>] >>

\* a slip in the removal of duplicates: the suggestion kept as it is spelt
seen_key_exact(suggestion) == suggestion

\* what the removal of duplicates remembers of a suggestion: suggestion.lower()
seen_key(suggestion) == lower(suggestion)

\* the loop that removes duplicates and stops at SuggestionCap suggestions
RECURSIVE unique_suggestions(_, _, _)
unique_suggestions(suggestions, seen, unique) ==
    IF suggestions = <<>> THEN unique
    ELSE IF seen_key(Head(suggestions)) \notin seen /\ Len(unique) < SuggestionCap
    THEN unique_suggestions(Tail(suggestions), seen \cup {seen_key(Head(suggestions))},
                            Append(unique, Head(suggestions)))
    ELSE unique_suggestions(Tail(suggestions), seen, unique)

\* render_smart_suggestions of app.py
render_smart_suggestions(task_input, existing_tasks) ==
    LET input_lower == lower(task_input)
        OfType(k) == IF contains(task_types[k].category, input_lower)
                     THEN task_types[k].tasks ELSE <<>>
        Matches(task) ==
            \/ within(input_lower, lower(task.task))
            \/ \E i \in 1..Len(split(input_lower)) :
                  contains(split(input_lower)[i], lower(task.task))
        similar_tasks(task) ==
            LET Similar(t) == t # task /\ within(lower(task.task), lower(t.task))
                similar == SelectSeq(existing_tasks, Similar)
            IN  prefix([i \in 1..Len(similar) |-> similar[i].task], SimilarCap)
        recent == suffix(existing_tasks, RecentTasks)
        suggestions ==
            extend([k \in 1..Len(task_types) |-> OfType(k)])
            \o extend([k \in 1..Len(recent) |->
                         IF Matches(recent[k]) THEN similar_tasks(recent[k]) ELSE <<>>])
    IN  IF strip(task_input) = <<>> THEN <<>>
        ELSE unique_suggestions(suggestions, {}, <<>>)

\* common_patterns of components/tasks.py
common_patterns ==
    << <<"Review", "and", "approve">>,
       <<"Schedule", "meeting", "with">>,
       <<"Update", "project", "timeline", "for">>,
       <<"Send", "payment", "reminder", "to">>,
       <<"Check", "progress", "on">>,
       <<"Create", "content", "for">>,
       <<"Test", "functionality", "of">>,
       <<"Document", "requirements", "for">>,
       <<"Coordinate", "with">>,
       <<"Finalize", "design", "for">> >>

\* render_smart_suggestions of components/tasks.py
tasks_render_smart_suggestions(task_input, existing_tasks) ==
    LET input_lower == lower(task_input)
        Fits(pattern) ==
            \E i \in 1..Len(split(input_lower)) :
                contains(split(input_lower)[i], lower(pattern))
        Taken(suggestion) ==
            \E i \in 1..Len(existing_tasks) : existing_tasks[i].task = suggestion
        Of(k) == IF Fits(common_patterns[k]) /\ ~Taken(joined(common_patterns[k], task_input))
                 THEN << joined(common_patterns[k], task_input) >> ELSE <<>>
        suggestions == extend([k \in 1..Len(common_patterns) |-> Of(k)])
    IN  IF task_input = <<>> \/ len(task_input) < MinInput THEN <<>>
        ELSE prefix(suggestions, ComponentsCap)

----------------------------------------------------------------------------
(* Dashboard page *)

\* a slip in the priority view: the overdue tasks not cleared of the critical
week_priorities_twice(d, t) ==
    LET WeekTask(task) == task.week = d.project.current_week
        week_tasks == SelectSeq(d.tasks, WeekTask)
        critical == SelectSeq(week_tasks, IsCritical)
        In(task, l) == \E k \in 1..Len(l) : l[k] = task
        Overdue(task) == is_task_overdue(task, t)
        overdue == SelectSeq(week_tasks, Overdue)
        Other(task) == ~In(task, critical) /\ ~In(task, overdue)
        others == SelectSeq(week_tasks, Other)
    IN  critical \o overdue \o others

\* the cards of "This Week": critical + overdue + others
week_priorities(d, t) ==
    LET WeekTask(task) == task.week = d.project.current_week
        week_tasks == SelectSeq(d.tasks, WeekTask)
        critical == SelectSeq(week_tasks, IsCritical)
        In(task, l) == \E k \in 1..Len(l) : l[k] = task
        Overdue(task) == is_task_overdue(task, t) /\ ~In(task, critical)
        overdue == SelectSeq(week_tasks, Overdue)
        Other(task) == ~In(task, critical) /\ ~In(task, overdue)
        others == SelectSeq(week_tasks, Other)
    IN  critical \o overdue \o others

DashboardPage(d, f, sess, ev) ==
    LET t == ev.at
        sess2 == optimize_performance(sess, d, t)
        cards == week_priorities(d, t)
        sh == [Sidebar(d, t) EXCEPT !.finances = sess2.cached_financial_summary,
                                    !.rendered = [i \in 1..Len(cards) |-> cards[i].id]]
    IN  IF ev.kind = "refresh"
        THEN Result(load_data(f), f, "rerun", None, sess, Sidebar(d, t))
        ELSE IF budget_used(sess2.cached_financial_summary[1], d.finances.budget_total) = None
        THEN Result(d, f, "error", None, sess2, Sidebar(d, t))  \* budget_used divides by it
        ELSE IF ev.kind = "save_all"
        THEN Result(d, save_data(d), "exit", Toast("Saved", <<>>), sess2, sh)
        ELSE Result(d, f, "exit", None, sess2, sh)

----------------------------------------------------------------------------
(* Finances page *)

\* one of the three edit handlers: assign, save, chain reaction, rerun
EditHandler(d, f, sess, sh) ==
    LET chain == trigger_financial_chain_reaction(d)
    IN  IF chain.raised
        THEN Result(d, save_data(d), "error", None, sess, sh)
        ELSE Result(chain.data, save_data(d), "rerun", chain.msg, sess,
                    [sh EXCEPT !.alerts = chain.alerts])

FinancesPage(d, f, sess, ev) ==
    LET sh == [Sidebar(d, ev.at) EXCEPT !.finances = Some(get_financial_summary(d.finances))]
    IN  CASE ev.kind = "edit_budget" ->
               EditHandler([d EXCEPT !.finances.budget_total = ev.arg], f, sess, sh)
          [] ev.kind = "edit_designer" ->
               EditHandler([d EXCEPT !.finances.designer_total = ev.arg], f, sess, sh)
          [] ev.kind = "edit_expenses" ->
               EditHandler([d EXCEPT !.finances.expenses_misc = ev.arg], f, sess, sh)
          [] OTHER -> Result(d, f, "exit", None, sess, sh)

----------------------------------------------------------------------------
(* Settings page *)

ProjectStatuses == {"In Progress", "On Hold", "Completed"}

\* the Reset button and the Confirm checkbox drawn under it
ResetHandler(d, f, pressed, confirmed, sess, sh) ==
    IF pressed /\ confirmed
    THEN Result(get_default_data, save_data(get_default_data), "rerun",
                Toast("Reset complete", <<>>), sess, sh)
    ELSE Result(d, f, "exit", None, sess, sh)

SettingsPage(d, f, sess, ev) ==
    LET sh == Sidebar(d, ev.at)
    IN  CASE ev.kind = "set_week" ->
               LET d2 == [d EXCEPT !.project.current_week = ev.arg]
               IN  IF ev.arg # d.project.current_week
                   THEN Result(d2, save_data(d2), "exit", Toast("Week updated", <<>>), sess, sh)
                   ELSE Result(d, f, "exit", None, sess, sh)
          [] ev.kind = "set_status" ->
               LET d2 == [d EXCEPT !.project.status = ev.text[1]]
               IN  IF ev.text[1] # d.project.status
                   THEN Result(d2, save_data(d2), "exit", Toast("Status updated", <<>>), sess, sh)
                   ELSE Result(d, f, "exit", None, sess, sh)
          [] ev.kind = "save" ->
               Result(d, save_data(d), "exit", Toast("Saved", <<>>), sess, sh)
          \* a button is true only in the run its click caused, and the checkbox
          \* drawn inside its branch is new, hence unticked, in that run
          [] ev.kind = "reset" -> ResetHandler(d, f, TRUE, FALSE, sess, sh)
          [] ev.kind = "confirm" -> ResetHandler(d, f, FALSE, TRUE, sess, sh)
          [] OTHER -> Result(d, f, "exit", None, sess, sh)

\* Timeline, Contacts and Communications only display
OtherPage(d, f, sess, ev) == Result(d, f, "exit", None, sess, Sidebar(d, ev.at))

----------------------------------------------------------------------------
(* The script of app.py as a state machine *)

\* the pages that only display
OtherPages == {"Timeline", "Contacts", "Communications"}

AddTexts == { <<>>, <<" ", " ">>, <<" ", "Plan", " ">> }
AddPriorities == { "high" }
EditInputs == { 0, 17000 }
WeekInputs == { 1, 2 }

NoEvent == Event("none", "none", 0, <<>>, 0)
NewSession == [cached_financial_summary |-> None, last_financial_update |-> None]

Init ==
    /\ file \in {NoFile} \cup SampleFiles
    /\ data = None
    /\ loaded = None
    /\ now = 0
    /\ event = NoEvent
    /\ runEnd = "none"
    /\ msg = None
    /\ shown = None
    /\ session = NewSession
    /\ lib = None
    /\ runs = 0

\* datetime.now() of the next run: up to a tick passes between two runs, no
\* time before the run that st.rerun() starts
Times == IF runEnd = "rerun" THEN {now} ELSE {t \in {now, now + 1} : t <= MaxNow}

(* One script run caused by ev: it loads d and leaves res.  The first run  *)
(* draws the Dashboard; a widget can be clicked only on the page on        *)
(* screen; after st.rerun() the page is drawn again at once, which is not  *)
(* counted as a run of the user's.                                         *)
Run(ev, d, res) ==
    /\ runEnd = "none" => ev.kind = "view" /\ ev.page = "Dashboard"
    /\ runEnd = "rerun" => ev.kind = "view" /\ ev.page = event.page
    /\ runEnd # "rerun" => runs < MaxRuns
    /\ ev.kind # "view" => ev.page = event.page
    /\ \E r \in {res} :
        /\ file' = IF r.end = "exit" THEN save_data(r.data) ELSE r.file
        /\ data' = Some(r.data)
        /\ loaded' = Some(d)
        /\ event' = ev
        /\ runEnd' = r.end
        /\ msg' = r.msg
        /\ shown' = Some(r.shown)
        /\ session' = r.session
        /\ runs' = IF runEnd = "rerun" THEN runs ELSE runs + 1
        /\ now' = ev.at
        /\ UNCHANGED lib

\* a page can be drawn: the Dashboard first, and after st.rerun() the page
\* that was on screen
Drawable(page) ==
    /\ runEnd = "none" => page = "Dashboard"
    /\ runEnd = "rerun" => page = event.page
    /\ runEnd # "rerun" => runs < MaxRuns

\* a widget can be clicked when its page is on screen and drawn to its end
OnScreen(page) == event.page = page /\ runEnd # "rerun" /\ runs < MaxRuns

\* the user opens the Dashboard, or a rerun draws it again
ViewDashboard ==
    /\ Drawable("Dashboard")
    /\ \E d \in {load_data(file)}, t \in Times :
        LET ev == Event("Dashboard", "view", 0, <<>>, t)
        IN  Run(ev, d, DashboardPage(d, file, session, ev))

ViewTasks ==
    /\ Drawable("Tasks")
    /\ \E d \in {load_data(file)}, t \in Times,
          fw \in FilterWeeks, fs \in FilterStatuses, fp \in FilterPriorities :
        LET ev == Event("Tasks", "view", 0, <<>>, t)
        IN  Run(ev, d, TasksPage(d, file, session, ev, fw, fs, fp, "high"))

ViewFinances ==
    /\ Drawable("Finances")
    /\ \E d \in {load_data(file)}, t \in Times :
        LET ev == Event("Finances", "view", 0, <<>>, t)
        IN  Run(ev, d, FinancesPage(d, file, session, ev))

ViewSettings ==
    /\ Drawable("Settings")
    /\ \E d \in {load_data(file)}, t \in Times :
        LET ev == Event("Settings", "view", 0, <<>>, t)
        IN  Run(ev, d, SettingsPage(d, file, session, ev))

ViewOther ==
    \E page \in OtherPages :
        /\ Drawable(page)
        /\ \E d \in {load_data(file)}, t \in Times :
            LET ev == Event(page, "view", 0, <<>>, t)
            IN  Run(ev, d, OtherPage(d, file, session, ev))

DashboardRefresh ==
    /\ OnScreen("Dashboard")
    /\ \E d \in {load_data(file)}, t \in Times :
        LET ev == Event("Dashboard", "refresh", 0, <<>>, t)
        IN  Run(ev, d, DashboardPage(d, file, session, ev))

\* the Save All Data button is drawn after the budget division
DashboardSaveAll ==
    /\ OnScreen("Dashboard")
    /\ \E d \in {load_data(file)}, t \in Times :
        LET ev == Event("Dashboard", "save_all", 0, <<>>, t)
        IN  /\ d.finances.budget_total # 0
            /\ Run(ev, d, DashboardPage(d, file, session, ev))

\* a click on the checkbox of the k-th task shown
TaskToggle ==
    /\ OnScreen("Tasks")
    /\ \E d \in {load_data(file)}, t \in Times,
          fw \in FilterWeeks, fs \in FilterStatuses, fp \in FilterPriorities :
        \E k \in 1..Len(Filtered(d.tasks, fw, fs, fp)) :
            LET ev == Event("Tasks", "toggle", k, <<>>, t)
            IN  Run(ev, d, TasksPage(d, file, session, ev, fw, fs, fp, "high"))

\* a click on the up button of the k-th task shown; the first has none
TaskMoveUp ==
    /\ OnScreen("Tasks")
    /\ \E d \in {load_data(file)}, t \in Times,
          fw \in FilterWeeks, fs \in FilterStatuses, fp \in FilterPriorities :
        \E k \in 2..Len(Filtered(d.tasks, fw, fs, fp)) :
            LET ev == Event("Tasks", "up", k, <<>>, t)
            IN  Run(ev, d, TasksPage(d, file, session, ev, fw, fs, fp, "high"))

\* a click on the down button of the k-th task shown; the last has none
TaskMoveDown ==
    /\ OnScreen("Tasks")
    /\ \E d \in {load_data(file)}, t \in Times,
          fw \in FilterWeeks, fs \in FilterStatuses, fp \in FilterPriorities :
        \E k \in 1..(Len(Filtered(d.tasks, fw, fs, fp)) - 1) :
            LET ev == Event("Tasks", "down", k, <<>>, t)
            IN  Run(ev, d, TasksPage(d, file, session, ev, fw, fs, fp, "high"))

\* the Add Task button is drawn after the notifications
TaskAdd ==
    /\ OnScreen("Tasks")
    /\ \E d \in {load_data(file)}, t \in Times, text \in AddTexts,
          new_priority \in AddPriorities :
        LET ev == Event("Tasks", "add", 0, text, t)
        IN  /\ ~NotificationsRaise(d)
            /\ Run(ev, d, TasksPage(d, file, session, ev, "All", "All", "All", new_priority))

FinancesEdit ==
    /\ OnScreen("Finances")
    /\ \E d \in {load_data(file)}, t \in Times,
          kind \in {"edit_budget", "edit_designer", "edit_expenses"}, v \in EditInputs :
        LET ev == Event("Finances", kind, v, <<>>, t)
        IN  Run(ev, d, FinancesPage(d, file, session, ev))

SettingsWeek ==
    /\ OnScreen("Settings")
    /\ \E d \in {load_data(file)}, t \in Times, w \in WeekInputs :
        LET ev == Event("Settings", "set_week", w, <<>>, t)
        IN  /\ w # d.project.current_week
            /\ Run(ev, d, SettingsPage(d, file, session, ev))

SettingsStatus ==
    /\ OnScreen("Settings")
    /\ \E d \in {load_data(file)}, t \in Times, st \in ProjectStatuses :
        LET ev == Event("Settings", "set_status", 0, <<st>>, t)
        IN  /\ st # d.project.status
            /\ Run(ev, d, SettingsPage(d, file, session, ev))

SettingsSave ==
    /\ OnScreen("Settings")
    /\ \E d \in {load_data(file)}, t \in Times :
        LET ev == Event("Settings", "save", 0, <<>>, t)
        IN  Run(ev, d, SettingsPage(d, file, session, ev))

SettingsReset ==
    /\ OnScreen("Settings")
    /\ \E d \in {load_data(file)}, t \in Times :
        LET ev == Event("Settings", "reset", 0, <<>>, t)
        IN  Run(ev, d, SettingsPage(d, file, session, ev))

\* the Confirm checkbox is on screen only after the run of a Reset click
SettingsConfirm ==
    /\ OnScreen("Settings")
    /\ event.kind = "reset"
    /\ \E d \in {load_data(file)}, t \in Times :
        LET ev == Event("Settings", "confirm", 0, <<>>, t)
        IN  Run(ev, d, SettingsPage(d, file, session, ev))

Next ==
    \/ ViewDashboard
    \/ ViewTasks
    \/ ViewFinances
    \/ ViewSettings
    \/ ViewOther
    \/ DashboardRefresh
    \/ DashboardSaveAll
    \/ TaskToggle
    \/ TaskMoveUp
    \/ TaskMoveDown
    \/ TaskAdd
    \/ FinancesEdit
    \/ SettingsWeek
    \/ SettingsStatus
    \/ SettingsSave
    \/ SettingsReset
    \/ SettingsConfirm

Spec == Init /\ [][Next]_vars

----------------------------------------------------------------------------
(* The aggregation functions on their own: a caller hands a document to    *)
(* both families of functions at some time of some day                     *)

\* task lists of up to MaxTasks tasks, ids by position
TaskShapes ==
    [status : {"pending", "completed"}, priority : {"critical", "high"},
     deadline : {-1, 0, 1}]

TaskLists ==
    UNION { { [i \in 1..n |-> Task(i, <<"Plan">>, 1, shapes[i].deadline, shapes[i].status,
                                   "You", shapes[i].priority)] :
              shapes \in [1..n -> TaskShapes] } : n \in 0..MaxTasks }

\* task lists whose tasks differ in week, status and priority
WeekShapes ==
    [week : {1, 2}, status : {"pending", "completed"}, priority : {"critical", "high"}]

WeekLists ==
    UNION { { [i \in 1..n |-> Task(i, <<"Plan">>, shapes[i].week, 1, shapes[i].status,
                                   "You", shapes[i].priority)] :
              shapes \in [1..n -> WeekShapes] } : n \in 1..MaxTasks }

\* task lists with deadlines that are no dates
MalformedShapes == [status : {"pending", "completed"}, deadline : {-1, NotADate}]

MalformedLists ==
    UNION { { [i \in 1..n |-> Task(i, <<"Plan">>, 1, shapes[i].deadline, shapes[i].status,
                                   "You", "high")] :
              shapes \in [1..n -> MalformedShapes] } : n \in 1..MaxTasks }

\* task lists whose texts hold one another, two of them equal but for the
\* case of the letters, and one that a suggestion would repeat
TaskTexts ==
    { <<"Send">>, <<"Send", "Brief">>, <<"send", "brief">>,
      <<"Send", "payment", "reminder", "to", "send">> }

TextLists ==
    UNION { { [i \in 1..n |-> Task(i, texts[i], 1, 1, "pending", "You", "high")] :
              texts \in [1..n -> TaskTexts] } : n \in 1..MaxTasks }

\* what the user may have typed into the task input
SuggestInputs ==
    { <<>>, <<" ", " ", " ">>, <<"to">>, <<"for">>, <<"send">>, <<"Design", "meeting">> }

\* a received list holding an entry still marked pending, and a paid_out
\* list holding one
MixedReceived ==
    << PaymentIn(-7, 11400, <<"Terry">>, "received"),
       PaymentIn(-1, 600, <<"Terry", "Milestone">>, "pending") >>

MixedPaidOut ==
    << PaymentOut(0, 5000, <<"Jared", "Deposit">>, "paid"),
       PaymentOut(3, 400, <<"Jared", "Deposit">>, "pending") >>

\* payment lists drawn from the seeded document and the test fixture
FinanceInputs ==
    { [SeededFinances EXCEPT !.received = r, !.pending_in = pi, !.paid_out = po,
                             !.pending_out = qo] :
        r \in { <<>>, SeededFinances.received, MixedReceived },
        pi \in { <<>>, SubSeq(SeededFinances.pending_in, 1, 1), SeededFinances.pending_in },
        po \in { <<>>, SeededFinances.paid_out, DepositsPaid.paid_out, MixedPaidOut },
        qo \in { <<>>, SubSeq(SeededFinances.pending_out, 1, 1) } }

LaunchDates == { -30, -29, 0, 1, 30, 31, 41 }

Document(tasks, finances, launch_date) ==
    [project |-> [SeededProject EXCEPT !.launch_date = launch_date],
     tasks |-> tasks, finances |-> finances]

PureDocs ==
    { Document(tasks, SeededFinances, 41) : tasks \in TaskLists \cup WeekLists \cup TextLists \cup MalformedLists }
    \cup { Document(<<>>, finances, 41) : finances \in FinanceInputs }
    \cup { Document(<<>>, SeededFinances, launch_date) : launch_date \in LaunchDates }

OverdueIds(tasks, Test(_)) ==
    {tasks[i].id : i \in {j \in 1..Len(tasks) : Test(tasks[j])}}

\* the options of the three select boxes of the Tasks page
WeekOptions == {"All", "W1", "W2", "W3", "W4", "W5", "W6"}
StatusOptions == {"All", "Pending", "Completed"}
PriorityOptions == {"All", "Critical", "High", "Medium"}
FilterChoices == WeekOptions \X StatusOptions \X PriorityOptions

\* what the functions of app.py return for document d at time t
AppView(d, t) ==
    LET Overdue(task) == ~is_task_overdue_raises(task) /\ is_task_overdue(task, t)
    IN  [stats |-> get_task_stats(d.tasks),
         raised |-> OverdueIds(d.tasks, is_task_overdue_raises),
         filtered |-> [c \in FilterChoices |-> Filtered(d.tasks, c[1], c[2], c[3])],
         suggestions |-> [x \in SuggestInputs |-> render_smart_suggestions(x, d.tasks)],
         notifications |-> render_advanced_notifications(d, t),
         summary |-> get_financial_summary(d.finances),
         overdue |-> OverdueIds(d.tasks, Overdue),
         days_remaining |-> get_days_remaining(d.project, t)]

\* what the functions of utils/helpers.py return for document d at time t
HelpersView(d, t) ==
    LET Overdue(task) == helpers_is_task_overdue(task, t)
    IN  [stats |-> helpers_get_task_stats(d.tasks, t),
         raised |-> OverdueIds(d.tasks, helpers_is_task_overdue_raises),
         summary |-> helpers_get_financial_summary(d.finances),
         overdue |-> OverdueIds(d.tasks, Overdue),
         days_remaining |-> helpers_get_days_remaining(d.project, t)]

\* the keys of the task filter, and one key that is none of them
FilterTypes == {"all", "pending", "completed", "overdue", "critical", "starred"}

\* a slip in filter_tasks: the critical filter keeps the open tasks only
filter_tasks_open_only(tasks, filter_type, t) ==
    LET Pending(task) == task.status = "pending"
        Completed(task) == task.status = "completed"
        Overdue(task) == helpers_is_task_overdue(task, t) /\ task.status # "completed"
        Critical(task) == task.priority = "critical" /\ task.status # "completed"
    IN  CASE filter_type = "all" -> tasks
          [] filter_type = "pending" -> SelectSeq(tasks, Pending)
          [] filter_type = "completed" -> SelectSeq(tasks, Completed)
          [] filter_type = "overdue" -> SelectSeq(tasks, Overdue)
          [] filter_type = "critical" -> SelectSeq(tasks, Critical)
          [] OTHER -> tasks

\* filter_tasks of components/tasks.py, called at time t
filter_tasks(tasks, filter_type, t) ==
    LET Pending(task) == task.status = "pending"
        Completed(task) == task.status = "completed"
        Overdue(task) == helpers_is_task_overdue(task, t) /\ task.status # "completed"
        Critical(task) == task.priority = "critical"
    IN  CASE filter_type = "all" -> tasks
          [] filter_type = "pending" -> SelectSeq(tasks, Pending)
          [] filter_type = "completed" -> SelectSeq(tasks, Completed)
          [] filter_type = "overdue" -> SelectSeq(tasks, Overdue)
          [] filter_type = "critical" -> SelectSeq(tasks, Critical)
          [] OTHER -> tasks

\* list / int: a list has no division, the operator raises TypeError
\* whatever the list holds: no value
list_over_int(l, n) == None

\* budget_used of generate_notifications: the received and paid_out lists,
\* one after the other, over budget_total
notifications_budget_used(finances) ==
    list_over_int(finances.received \o finances.paid_out, finances.budget_total)

\* generate_notifications of components/notifications.py, called at time t:
\* whether it raised, and the notifications by type up to the statement
\* that raised
generate_notifications(d, t) ==
    LET Overdue(task) == helpers_is_task_overdue(task, t) /\ task.status # "completed"
        overdue_tasks == SelectSeq(d.tasks, Overdue)
        first == IF overdue_tasks # <<>>
                 THEN << [type |-> "urgent", count |-> Len(overdue_tasks)] >> ELSE <<>>
        used == notifications_budget_used(d.finances)
        Open(task) == task.status # "completed"
        days_left == helpers_get_days_remaining(d.project, t)
    IN  IF used = None THEN [raised |-> TRUE, notifications |-> first]
        \* datetime is not imported in the module: the first task that is not
        \* completed raises NameError
        ELSE IF SelectSeq(d.tasks, Open) # <<>>
        THEN [raised |-> TRUE,
              notifications |-> first \o (IF used[1] > BudgetAlert
                                          THEN << [type |-> "budget", count |-> used[1]] >>
                                          ELSE <<>>)]
        ELSE [raised |-> FALSE,
              notifications |->
                  first
                  \o (IF used[1] > BudgetAlert
                      THEN << [type |-> "budget", count |-> used[1]] >> ELSE <<>>)
                  \o (IF days_left <= LaunchSoon /\ days_left > 0
                      THEN << [type |-> "milestone", count |-> days_left] >> ELSE <<>>)]

\* what the functions of components/ return for document d at time t
ComponentsView(d, t) ==
    [filtered |-> [k \in FilterTypes |-> filter_tasks(d.tasks, k, t)],
     suggestions |-> [x \in SuggestInputs |-> tasks_render_smart_suggestions(x, d.tasks)],
     notifications |-> generate_notifications(d, t)]

PureInit ==
    /\ file \in {save_data(d) : d \in PureDocs}
    /\ data = None
    /\ loaded = None
    /\ now = 0
    /\ event = NoEvent
    /\ runEnd = "none"
    /\ msg = None
    /\ shown = None
    /\ session = NewSession
    /\ lib = None
    /\ runs = 0

Evaluate ==
    \E t \in Times :
        /\ now' = t
        /\ lib' = Some([doc |-> load_data(file), at |-> t,
                        app |-> AppView(load_data(file), t),
                        helpers |-> HelpersView(load_data(file), t),
                        components |-> ComponentsView(load_data(file), t)])
        /\ UNCHANGED <<file, data, loaded, event, runEnd, msg, shown, session, runs>>

PureNext == Evaluate

PureSpec == PureInit /\ [][PureNext]_vars

----------------------------------------------------------------------------
(* Properties of the aggregation functions, under PureSpec *)

Evaluated == lib # None
Input == lib[1].doc
App == lib[1].app
Helpers == lib[1].helpers

\* C1: for every task list, the empty one included, both get_task_stats
\* return total = the number of tasks and completed + pending = total
C1_TaskStatsTotals ==
    Evaluated =>
        /\ App.stats.total = Len(Input.tasks)
        /\ App.stats.completed + App.stats.pending = App.stats.total
        /\ Helpers.stats.total = Len(Input.tasks)
        /\ Helpers.stats.completed + Helpers.stats.pending = Helpers.stats.total
        /\ Input.tasks = <<>> =>
              App.stats = [total |-> 0, completed |-> 0, pending |-> 0, critical |-> 0]

C1_Witness ==
    /\ Evaluated
    /\ Len(Input.tasks) >= 2
    /\ App.stats.completed >= 1
    /\ App.stats.pending >= 1

\* C2: neither is_task_overdue reports a completed task overdue, whatever
\* its deadline
C2_CompletedNeverOverdue ==
    Evaluated =>
        \A i \in 1..Len(Input.tasks) :
            Input.tasks[i].status = "completed" =>
                /\ Input.tasks[i].id \notin App.overdue
                /\ Input.tasks[i].id \notin Helpers.overdue

\* C3: a pending task is reported overdue exactly when its deadline date is
\* before today; a task due today or later is not overdue at any time of day
C3_OverdueIffBeforeToday ==
    Evaluated =>
        \A i \in 1..Len(Input.tasks) :
            Input.tasks[i].status = "pending" =>
                /\ Input.tasks[i].id \in App.overdue
                     <=> Input.tasks[i].deadline < today(lib[1].at)
                /\ Input.tasks[i].id \in Helpers.overdue
                     <=> Input.tasks[i].deadline < today(lib[1].at)

ReceivedSum(finances) ==
    LET Received(p) == p.status = "received"
    IN  SumAmounts(SelectSeq(finances.received, Received))

PaidSum(finances) ==
    LET Paid(p) == p.status = "paid"
    IN  SumAmounts(SelectSeq(finances.paid_out, Paid))

\* C4: the balance of both get_financial_summary is the received amounts
\* with status received minus the paid_out amounts with status paid, whatever
\* the pending lists hold
C4_BalanceExcludesPending ==
    Evaluated =>
        /\ App.summary.balance = ReceivedSum(Input.finances) - PaidSum(Input.finances)
        /\ Helpers.summary.balance = ReceivedSum(Input.finances) - PaidSum(Input.finances)

\* C5: neither get_days_remaining returns a negative number, and both return
\* 0 once the launch date is in the past
C5_DaysRemainingNeverNegative ==
    Evaluated =>
        /\ App.days_remaining >= 0
        /\ Helpers.days_remaining >= 0
        /\ Input.project.launch_date < today(lib[1].at) =>
              App.days_remaining = 0 /\ Helpers.days_remaining = 0

\* the whole days from time t to midnight of the launch date, signed: a day
\* less than the difference of the dates once the day of t has begun
SignedDays(launch_date, t) ==
    (launch_date - today(t)) - (IF t % TicksPerDay > 0 THEN 1 ELSE 0)

DaysAhead == Input.project.launch_date - today(lib[1].at)

----------------------------------------------------------------------------
(* Properties of the script runs, under Spec *)

Ran == runEnd # "none"
Memory == data[1]
Loaded == loaded[1]
Stored == load_data(file)

Distinct(tasks) == \A i, j \in 1..Len(tasks) : tasks[i].id = tasks[j].id => i = j

Added == Ran /\ event.kind = "add" /\ Len(Memory.tasks) = Len(Loaded.tasks) + 1

\* C7: the task ids stay pairwise distinct, in memory and in the file, after
\* every add, toggle and move, and an added task has the largest id of the
\* list it was added to, plus one
C7_IdsStayDistinct ==
    /\ Distinct(Stored.tasks)
    /\ Ran => Distinct(Memory.tasks)
    /\ Added =>
          LET id == Memory.tasks[Len(Memory.tasks)].id
          IN  /\ \A i \in 1..Len(Loaded.tasks) : Loaded.tasks[i].id < id
              /\ \E i \in 1..Len(Loaded.tasks) : Loaded.tasks[i].id = id - 1

C7_Witness ==
    /\ Added
    /\ \E i \in 1..Len(Loaded.tasks) : Loaded.tasks[i].id > Len(Loaded.tasks)
    /\ \E i \in 2..Len(Loaded.tasks) : Loaded.tasks[i].id < Loaded.tasks[i - 1].id

Blank(text) == \A i \in 1..Len(text) : text[i] = " "

\* C8: a press of Add Task with an empty or all-whitespace description ends
\* with the error message, and the document in memory and in the file is the
\* one the run loaded
C8_BlankAddRejected ==
    (Ran /\ event.kind = "add" /\ Blank(event.text)) =>
        /\ msg = Toast("Task description required", <<>>)
        /\ Memory = Loaded
        /\ Len(Memory.tasks) = Len(Loaded.tasks)
        /\ Stored = Loaded

C8_Witness ==
    /\ Ran
    /\ event.kind = "add"
    /\ Len(event.text) >= 2
    /\ Blank(event.text)
    /\ Memory.tasks # <<>>
    /\ msg = Toast("Task description required", <<>>)

\* C9: completing a completed task or reopening a pending one changes
\* nothing, the same transition applied twice is the transition applied
\* once, and a run of the Tasks page in which no control is clicked leaves
\* the document as it was loaded
C9_TransitionsIdempotent ==
    Ran =>
        /\ \A i \in 1..Len(Memory.tasks) :
              LET task == Memory.tasks[i]
              IN  /\ task.status = "completed" => CheckboxHandler(task, TRUE) = task
                  /\ task.status = "pending" => CheckboxHandler(task, FALSE) = task
                  /\ \A c \in BOOLEAN :
                        CheckboxHandler(CheckboxHandler(task, c), c) = CheckboxHandler(task, c)
        /\ (event.page = "Tasks" /\ event.kind = "view") => Memory = Loaded

C9_Witness ==
    /\ Ran
    /\ event.page = "Tasks"
    /\ event.kind = "view"
    /\ runEnd = "exit"
    /\ \E i \in 1..Len(Memory.tasks) :
          Memory.tasks[i].status = "completed" /\ Memory.tasks[i].id \in
              {shown[1].rendered[j] : j \in 1..Len(shown[1].rendered)}
    /\ \E i \in 1..Len(Memory.tasks) :
          Memory.tasks[i].status = "pending" /\ Memory.tasks[i].id \in
              {shown[1].rendered[j] : j \in 1..Len(shown[1].rendered)}

\* C10: when a run has ended, the document in the file is the document the
\* run held in memory, so that the next load reads every change the run made
C10_MemoryWrittenBeforeNextLoad == Ran => Stored = Memory

\* C11: a run that only shows a page shows, wherever it shows a financial
\* summary (the cached one of the Dashboard included), the summary of the
\* document it holds; no summary computed before an edit is shown after it
C11_SummaryShownIsCurrent ==
    (Ran /\ event.kind = "view" /\ shown[1].finances # None) =>
        shown[1].finances[1] = get_financial_summary(Memory.finances)

\* C12: the budget utilization of the document a run holds has a value,
\* (received + paid_out) / budget_total x 100, which is 0 on a zero budget,
\* and no run on a document with a zero budget ends with an exception
C12_UtilizationGuarded ==
    Ran =>
        LET finances == Memory.finances
            summary == get_financial_summary(finances)
        IN  /\ budget_used(summary, finances.budget_total) =
                  Some(IF finances.budget_total = 0 THEN 0
                       ELSE ((summary.received + summary.paid_out) * 100)
                                \div finances.budget_total)
            /\ finances.budget_total = 0 => runEnd # "error"

\* C13: while the file is absent, a run that only shows a page leaves it
\* absent; the file is created by an explicit save alone
C13_ViewDoesNotCreateFile ==
    [][(file = NoFile /\ event'.kind = "view") => file' = NoFile]_vars

\* C14: the profit of both get_financial_summary is budget_total -
\* designer_total - expenses_misc, whatever the four payment lists hold
C14_ProfitIsAllocation ==
    Evaluated =>
        LET finances == Input.finances
            allocation == finances.budget_total - finances.designer_total
                            - finances.expenses_misc
        IN  /\ App.summary.profit = allocation
            /\ Helpers.summary.profit = allocation

\* C15: the two get_financial_summary return the same profit for every
\* finances document
C15_ProfitUniform ==
    Evaluated => App.summary.profit = Helpers.summary.profit

Components == lib[1].components

\* the places of the critical tasks in a list
CriticalAt(tasks) == {i \in 1..Len(tasks) : tasks[i].priority = "critical"}

\* the place in the list of its k-th critical task
KthCritical(tasks, k) ==
    CHOOSE i \in CriticalAt(tasks) : Cardinality({j \in CriticalAt(tasks) : j <= i}) = k

\* C16: filter_tasks with key critical returns the critical tasks, completed
\* or not, in the order of the list and nothing else; with key all it
\* returns the list
C16_FilterCritical ==
    Evaluated =>
        LET tasks == Input.tasks
            critical == Components.filtered["critical"]
        IN  /\ Len(critical) = Cardinality(CriticalAt(tasks))
            /\ \A k \in 1..Len(critical) : critical[k] = tasks[KthCritical(tasks, k)]
            /\ Components.filtered["all"] = tasks

C16_Witness ==
    /\ Evaluated
    /\ Len(Components.filtered["critical"]) = 1
    /\ Components.filtered["critical"][1].status = "completed"
    /\ Len(Input.tasks) = 2
    /\ Input.tasks[1].priority # "critical"

\* the tokens a JSON text holds under the keys of integer values
NumberTokens(json) ==
    {json.finances[key] : key \in DOMAIN json.finances \cap NumberKeys}
    \cup {json.project[key] : key \in DOMAIN json.project \cap NumberKeys}
    \cup {json.tasks[i][key] : i \in 1..Len(json.tasks), key \in {"id", "week"}}
    \cup UNION {{json.finances[key][i].amount : i \in 1..Len(json.finances[key])} :
                    key \in ListKeys}

C18_TotalsCountOwnStatus ==
    Evaluated =>
        /\ App.summary.received = ReceivedSum(Input.finances)
        /\ App.summary.paid_out = PaidSum(Input.finances)
        /\ Helpers.summary.received = ReceivedSum(Input.finances)
        /\ Helpers.summary.paid_out = PaidSum(Input.finances)

\* C19: a task has, when a run ends, the status it was loaded with unless
\* the run is that of a click on the task's own checkbox
C19_StatusChangesByCheckboxOnly ==
    Ran =>
        \A i \in 1..Len(Loaded.tasks), j \in 1..Len(Memory.tasks) :
            (/\ Loaded.tasks[i].id = Memory.tasks[j].id
             /\ Loaded.tasks[i].status # Memory.tasks[j].status)
            => /\ event.kind = "toggle"
               /\ shown[1].rendered[event.arg] = Memory.tasks[j].id

\* the place of the task with an id in the list the run holds
PlaceOf(id) == CHOOSE i \in 1..Len(Memory.tasks) : Memory.tasks[i].id = id

\* 1 for a critical task, 2 for one past its deadline and not completed,
\* 3 for any other, at the time of the run
Bucket(task) ==
    IF task.priority = "critical" THEN 1
    ELSE IF task.status # "completed" /\ task.deadline * TicksPerDay < event.at THEN 2
    ELSE 3

DashboardDrawn == Ran /\ event.page = "Dashboard" /\ runEnd = "exit"

\* C20: the cards of the Dashboard's priority view are the tasks of the
\* current week, each once; critical ones first, then the overdue ones, then
\* the rest, and the tasks of one bucket in the order of the list
C20_PriorityViewPartition ==
    DashboardDrawn =>
        LET cards == shown[1].rendered
            WeekIds == {Memory.tasks[i].id : i \in
                          {j \in 1..Len(Memory.tasks) :
                              Memory.tasks[j].week = Memory.project.current_week}}
        IN  /\ {cards[p] : p \in 1..Len(cards)} = WeekIds
            /\ Len(cards) = Cardinality(WeekIds)
            /\ \A p, q \in 1..Len(cards) :
                  p < q =>
                      LET a == Memory.tasks[PlaceOf(cards[p])]
                          b == Memory.tasks[PlaceOf(cards[q])]
                      IN  \/ Bucket(a) < Bucket(b)
                          \/ Bucket(a) = Bucket(b) /\ PlaceOf(cards[p]) < PlaceOf(cards[q])

C20_Witness ==
    /\ DashboardDrawn
    /\ Len(shown[1].rendered) = 3
    /\ {Bucket(Memory.tasks[i]) : i \in 1..Len(Memory.tasks)} = {1, 2, 3}
    /\ PlaceOf(shown[1].rendered[1]) = 3
    /\ PlaceOf(shown[1].rendered[2]) = 2
    /\ PlaceOf(shown[1].rendered[3]) = 1

\* whether a task passes the select boxes set to choice c
Selected(task, c) ==
    /\ c[1] # "All" => task.week = week_num(c[1])
    /\ c[2] # "All" => task.status = LowerWord(c[2])
    /\ c[3] # "All" => task.priority = LowerWord(c[3])

\* the tasks of a list that pass test k of choice c (1 week, 2 status,
\* 3 priority), in the order of the list
Pass(tasks, c, k) ==
    LET Keeps(task) == Selected(task, [i \in 1..3 |-> IF i = k THEN c[i] ELSE "All"])
    IN  SelectSeq(tasks, Keeps)

\* C21: under every choice of the week, status and priority filters the
\* Tasks page lists exactly the tasks that pass all the selected tests, in
\* the order of the task list, and applying the three filters in any other
\* order gives the same list
C21_FiltersConjoin ==
    Evaluated =>
        \A c \in FilterChoices :
            LET Keeps(task) == Selected(task, c)
            IN  /\ App.filtered[c] = SelectSeq(Input.tasks, Keeps)
                /\ App.filtered[c] = Pass(Pass(Pass(Input.tasks, c, 3), c, 2), c, 1)
                /\ App.filtered[c] = Pass(Pass(Pass(Input.tasks, c, 2), c, 3), c, 1)
                /\ App.filtered[c] = Pass(Pass(Pass(Input.tasks, c, 2), c, 1), c, 3)

C21_Witness ==
    /\ Evaluated
    /\ Len(Input.tasks) = 2
    /\ Input.tasks[1].week = 2
    /\ Input.tasks[1].status = "pending"
    /\ Input.tasks[1].priority = "critical"
    /\ App.filtered[<<"W1", "Pending", "Critical">>] = <<Input.tasks[2]>>
    /\ App.filtered[<<"All", "Pending", "All">>] = Input.tasks

\* no two suggestions of a list are equal ignoring case
NoRepeat(suggestions) ==
    \A i, j \in 1..Len(suggestions) :
        lower(suggestions[i]) = lower(suggestions[j]) => i = j

\* C22: render_smart_suggestions returns at most 5 suggestions in app.py and
\* at most 3 in components/tasks.py, no two of them equal ignoring case, and
\* none for an empty or all-whitespace input
C22_SuggestionsCappedAndDistinct ==
    Evaluated =>
        \A x \in SuggestInputs :
            /\ Len(App.suggestions[x]) <= 5
            /\ Len(Components.suggestions[x]) <= 3
            /\ NoRepeat(App.suggestions[x])
            /\ NoRepeat(Components.suggestions[x])
            /\ Blank(x) => App.suggestions[x] = <<>> /\ Components.suggestions[x] = <<>>

C22_Witness ==
    /\ Evaluated
    /\ Len(Input.tasks) = 2
    /\ Input.tasks[1].task = <<"Send", "Brief">>
    /\ Input.tasks[2].task = <<"send", "brief">>
    /\ App.suggestions[<<"send">>] = << <<"send", "brief">> >>
    /\ Len(App.suggestions[<<"Design", "meeting">>]) = 5
    /\ Len(Components.suggestions[<<"for">>]) = 3
    /\ Components.suggestions[<<" ", " ", " ">>] = <<>>

\* the notifications of a type in what generate_notifications returned
OfType(type) ==
    LET Is(n) == n.type = type
    IN  SelectSeq(Components.notifications.notifications, Is)

\* C23: for every well-formed document generate_notifications returns
\* without raising, with an overdue entry exactly when some task that is
\* not completed is overdue and a budget alert exactly when the budget
\* utilization is above 90 percent
C23_NotificationsTotal ==
    Evaluated =>
        LET finances == Input.finances
            summary == helpers_get_financial_summary(finances)
        IN  /\ ~Components.notifications.raised
            /\ OfType("urgent") # <<>> <=>
                  \E i \in 1..Len(Input.tasks) :
                      /\ Input.tasks[i].status # "completed"
                      /\ helpers_is_task_overdue(Input.tasks[i], lib[1].at)
            /\ OfType("budget") # <<>> <=>
                  (summary.received + summary.paid_out) * 100 > 90 * finances.budget_total

\* how the call of is_task_overdue on a task ended, in a view
Outcome(view, task) ==
    IF task.id \in view.raised THEN "raised"
    ELSE IF task.id \in view.overdue THEN "True" ELSE "False"

\* C24: on a task whose deadline is no date, is_task_overdue of app.py and
\* is_task_overdue of utils/helpers.py end alike: both return False or both
\* raise
C24_MalformedHandledAlike ==
    Evaluated =>
        \A i \in 1..Len(Input.tasks) :
            ~IsDate(Input.tasks[i].deadline) =>
                /\ Outcome(App, Input.tasks[i]) = Outcome(Helpers, Input.tasks[i])
                /\ Outcome(App, Input.tasks[i]) \in {"False", "raised"}

\* C25: once the user has clicked Reset to Fresh Data and then ticked
\* Confirm reset, the run that the tick causes leaves the default document
\* in memory and in the file, with the message of the reset branch
C25_ConfirmedResetReplaces ==
    (Ran /\ event.kind = "confirm") =>
        /\ Memory = get_default_data
        /\ Stored = get_default_data
        /\ msg = Toast("Reset complete", <<>>)

Edited == Ran /\ event.kind \in {"edit_budget", "edit_designer", "edit_expenses"}

\* received + paid_out above the whole budget
OverBudget(finances) ==
    LET summary == get_financial_summary(finances)
    IN  (summary.received + summary.paid_out) * 100 > 100 * finances.budget_total

\* C26: when a financial edit leaves the budget utilization above 100
\* percent, the chain reaction shows the Budget exceeded toast
C26_ExceededToastShown ==
    (Edited /\ runEnd = "rerun" /\ OverBudget(Memory.finances)) =>
        \E i \in 1..Len(shown[1].alerts) :
            shown[1].alerts[i] = Toast("Budget exceeded", <<>>)

\* C27: the sidebar shows Launched only when the launch date has been
\* reached; at any time before midnight of the launch date, be it less than
\* a day before, it shows a positive number of days to launch
C27_LaunchedOnlyOnceReached ==
    Ran =>
        LET launch == strptime(Loaded.project.launch_date)
        IN  /\ shown[1].launched => launch <= event.at
            /\ event.at < launch => ~shown[1].launched /\ shown[1].days_left > 0

MovedUp == Ran /\ event.kind = "up" /\ runEnd = "rerun"

\* C28: a press of move-up on the task shown at a place below the first, in
\* the view as filtered, swaps one adjacent pair of the task list, and the
\* task it moves the pressed one before is the task shown directly above it
C28_MoveUpPassesShownNeighbour ==
    MovedUp =>
        \E j \in 2..Len(Loaded.tasks) :
            /\ Memory.tasks = swap(Loaded.tasks, j, j - 1)
            /\ Loaded.tasks[j - 1].id = shown[1].rendered[event.arg - 1]

\* whether the notifications of app.py hold one with a title for a task
Notified(title, task) ==
    \E i \in 1..Len(App.notifications.notifications) :
        /\ App.notifications.notifications[i].title = title
        /\ App.notifications.notifications[i].task_id = Some(task.id)

\* C29: a task of the current week that is not completed gets Task Due
\* Today exactly when its deadline is today, Task Due Tomorrow exactly when
\* it is tomorrow, and Overdue Task exactly when it is before today
C29_DueNotificationsByDate ==
    (Evaluated /\ ~App.notifications.raised) =>
        \A i \in 1..Len(Input.tasks) :
            LET task == Input.tasks[i]
            IN  (task.week = Input.project.current_week /\ task.status # "completed") =>
                    /\ Notified("Task Due Today", task)
                          <=> task.deadline = today(lib[1].at)
                    /\ Notified("Task Due Tomorrow", task)
                          <=> task.deadline = today(lib[1].at) + 1
                    /\ Notified("Overdue Task", task)
                          <=> task.deadline < today(lib[1].at)

\* C30: the summary that optimize_performance returns was computed no more
\* than 30 seconds before the call; as a tick is longer than that, it was
\* computed at the tick of the call, however many whole days lie between
\* two calls
C30_CacheNeverOlderThanWindow ==
    (Ran /\ event.page = "Dashboard" /\ event.kind # "refresh") =>
        /\ session.cached_financial_summary # None
        /\ session.last_financial_update = Some(event.at)

====
